---- MODULE Spec2Model ----
(***************************************************************************)
(* A model of loopify_audio.py: one run of loopify_audio() is a sequence   *)
(* of steps over a small file system.  Time is counted in ticks of         *)
(* 2^-TickBits seconds, and audio has one sample to the tick: a file's     *)
(* content is the sequence of the samples it holds, in playing order, each *)
(* named by its position in the source.  The floats of the runs are the    *)
(* doubles that are a whole number of ticks, and the tiny doubles that are *)
(* a whole number of 2^-TinyBits seconds: on these, Python's arithmetic is *)
(* exact but for a tiny value added to a duration, which the duration      *)
(* absorbs.  The external tools (ffprobe, ffmpeg) act by their contract    *)
(* and may fail at every call.                                             *)
(***************************************************************************)
EXTENDS Integers, Sequences, FiniteSets, TLC

\* ---------------------------------------------------------------- bounds
\* a tick is 2^-TickBits seconds
TickBits == 7
\* a tiny float is a whole number of 2^-TinyBits seconds
TinyBits == 64
\* the longest source, in ticks
MaxDur == 6

\* ------------------------------------------------------ program constants
\* f"{value:.6f}"
FracDigits == 6
\* abs_tol=1e-6, in microseconds
AbsTolMicros == 1
\* the significant bits of a Python float
SignificandBits == 53

VARIABLES
    fs,             \* path -> entry: the files and symbolic links that exist
    dirs,           \* the directories that exist
    pc,             \* the position of the run
    input_path, cut_seconds, output_path, force,    \* the arguments
    duration, dest, same_path, dest_resolved,       \* the locals of loopify_audio
    cut, cut_text, suffix, work_output, temp_path,
    pending,        \* the exception propagating through a finally / with exit
    err, ret,       \* how the run ended
    calls,          \* the external calls made so far, in order
    fs0,            \* the file system when the run started
    run, prev       \* the run's number and what the run before it did

vars == <<fs, dirs, pc, input_path, cut_seconds, output_path, force, duration,
          dest, same_path, dest_resolved, cut, cut_text, suffix, work_output,
          temp_path, pending, err, ret, calls, fs0, run, prev>>

\* ----------------------------------------------------------- arithmetic
Abs(n) == IF n < 0 THEN -n ELSE n

Pow2(k) == 2 ^ k

Pow10(k) == 10 ^ k

Min(a, b) == IF a < b THEN a ELSE b

\* round q + r/unit to the nearest integer, ties to even
RoundHalfEven(n, unit) ==
    LET q == n \div unit
        r == n % unit
    IN  IF 2 * r > unit \/ (2 * r = unit /\ q % 2 = 1) THEN q + 1 ELSE q

\* a float: ticks * 2^-TickBits + tiny * 2^-TinyBits seconds, one of the two
\* parts zero
Ticks(n) == [ticks |-> n, tiny |-> 0]

Tiny(k) == [ticks |-> 0, tiny |-> k]

\* -1, 0 or 1
Sign(x) ==
    IF x.ticks < 0 \/ (x.ticks = 0 /\ x.tiny < 0) THEN -1
    ELSE IF x.ticks = 0 /\ x.tiny = 0 THEN 0 ELSE 1

\* C fmod of x by y > 0 ticks: exact, the sign of x; a tiny x is below y
Fmod(x, y) ==
    IF x.ticks = 0 THEN x
    ELSE IF x.ticks > 0 THEN Ticks(x.ticks % y) ELSE Ticks(-((-x.ticks) % y))

\* a tiny value of k units is below a quarter of the last place of every
\* float of a tick or more
Absorbed(k) == Abs(k) < Pow2(TinyBits - TickBits - SignificandBits - 1)

\* the float sum of x and y >= 1 ticks, rounded to nearest: whole ticks add
\* exactly, a tiny x is absorbed
FloatAdd(x, y) ==
    IF x.tiny = 0 THEN Ticks(x.ticks + y)
    ELSE CASE Absorbed(x.tiny) -> Ticks(y)

\* Python's float % (float_rem): fmod, then the divisor added, rounded, when
\* the remainder is not zero and the signs differ
FloatMod(x, y) ==
    LET m == Fmod(x, y)
    IN  IF Sign(m) # 0 /\ ((y < 0) # (Sign(m) < 0)) THEN FloatAdd(m, y) ELSE m

\* cut = cut_seconds % duration
Normalize(raw, d) == FloatMod(raw, d)

\* a bug: the tolerance dropped, only an exact zero is a no-op
IsExactlyZero(c) == Sign(c) = 0

\* math.isclose(cut, 0.0, abs_tol=1e-6): |cut - 0| <= max(1e-9 * |cut|, 1e-6),
\* which is |cut| <= 1e-6; a tiny value is
IsCloseZero(c) ==
    IF c.ticks = 0 THEN TRUE
    ELSE Abs(c.ticks) * Pow10(FracDigits) <= AbsTolMicros * Pow2(TickBits)

\* ------------------------------------------------------------------ text
Digit(k) == CASE k = 0 -> "0" [] k = 1 -> "1" [] k = 2 -> "2" [] k = 3 -> "3"
              [] k = 4 -> "4" [] k = 5 -> "5" [] k = 6 -> "6" [] k = 7 -> "7"
              [] k = 8 -> "8" [] k = 9 -> "9"

DigitValue(c) == CHOOSE k \in 0..9 : Digit(k) = c

\* the decimal digits of n >= 0, most significant first
RECURSIVE Digits(_)
Digits(n) == IF n < 10 THEN <<Digit(n)>> ELSE Append(Digits(n \div 10), Digit(n % 10))

\* n < 10^w as exactly w digits
RECURSIVE FixedDigits(_, _)
FixedDigits(n, w) ==
    IF w = 0 THEN <<>> ELSE Append(FixedDigits(n \div 10, w - 1), Digit(n % 10))

\* str.rstrip(c)
RECURSIVE RStrip(_, _)
RStrip(t, c) ==
    IF t # <<>> /\ t[Len(t)] = c THEN RStrip(SubSeq(t, 1, Len(t) - 1), c) ELSE t

\* _format_time: a time not negative as text, six decimals of a second,
\* correctly rounded (an exact tie, as of 0.0078125, goes to the even digit: a
\* float is a binary fraction, so its decimal expansion is exact), trailing
\* zeros and a trailing point stripped
FormatTime(value) ==
    LET micros == RoundHalfEven(value.ticks * Pow10(FracDigits), Pow2(TickBits))
        text   == Digits(micros \div Pow10(FracDigits)) \o <<".">>
                    \o FixedDigits(micros % Pow10(FracDigits), FracDigits)
        short  == RStrip(RStrip(text, "0"), ".")
    IN  IF short = <<>> THEN <<"0">> ELSE short

RECURSIVE DigitsValue(_)
DigitsValue(t) ==
    IF t = <<>> THEN 0 ELSE 10 * DigitsValue(SubSeq(t, 1, Len(t) - 1)) + DigitValue(t[Len(t)])

\* the transcoder reading a time argument: seconds with a decimal fraction,
\* in microseconds
ParseTime(t) ==
    LET dot   == IF \E i \in 1..Len(t) : t[i] = "."
                 THEN CHOOSE i \in 1..Len(t) : t[i] = "." ELSE Len(t) + 1
        whole == SubSeq(t, 1, dot - 1)
        frac  == SubSeq(t, dot + 1, Len(t))
    IN  (DigitsValue(whole) * Pow10(FracDigits)
           + DigitsValue(frac) * Pow10(FracDigits - Len(frac)))

\* the transcoder seeking a time: the samples before it, those whose time
\* stamp (0 for the first, a tick more for each) is below it
SeekTicks(micros) ==
    (micros * Pow2(TickBits) + Pow10(FracDigits) - 1) \div Pow10(FracDigits)

\* ----------------------------------------------------------------- paths
\* a path: its directory, the stem and the suffix of its name, and whether it
\* is spelled relative to the working directory (rel) rather than absolute
Path(d, s, e) == [dir |-> d, stem |-> s, ext |-> e, rel |-> FALSE]

NoPath == Path("", "", "")

Cwd == "m"

\* the path with its spelling made absolute
Absolute(p) == [p EXCEPT !.rel = FALSE]

File(data, whole) == [kind |-> "file", data |-> data, whole |-> whole, to |-> NoPath, lines |-> <<>>]

Link(to) == [kind |-> "link", data |-> <<>>, whole |-> TRUE, to |-> to, lines |-> <<>>]

ListFile(lines) == [kind |-> "list", data |-> <<>>, whole |-> TRUE, to |-> NoPath, lines |-> lines]

\* Path.resolve(): absolute, symbolic links followed
RECURSIVE ResolveIn(_, _, _)
ResolveIn(f, p, fuel) ==
    LET a == Absolute(p)
    IN  IF fuel > 0 /\ a \in DOMAIN f /\ f[a].kind = "link"
        THEN ResolveIn(f, f[a].to, fuel - 1) ELSE a

Resolve(f, p) == ResolveIn(f, p, 2)

\* Path.exists(), Path.is_file(): through symbolic links
Exists(f, p) == Resolve(f, p) \in DOMAIN f /\ f[Resolve(f, p)].kind # "link"

IsFile(f, p) == Exists(f, p)

\* the entry a path leads to
ReadFile(f, p) == f[Resolve(f, p)]

\* open(path, "w") and write: through a symbolic link, to the file it names
WriteFile(f, p, e) ==
    [q \in DOMAIN f \cup {Resolve(f, p)} |-> IF q = Resolve(f, p) THEN e ELSE f[q]]

\* Path.unlink(): the directory entry itself
Unlink(f, p) == [q \in DOMAIN f \ {Absolute(p)} |-> f[q]]

\* Path.replace(): rename over the target, whatever it is
Rename(f, from, to) ==
    [q \in (DOMAIN f \ {Absolute(from)}) \cup {Absolute(to)} |->
        IF q = Absolute(to) THEN f[Absolute(from)] ELSE f[q]]

\* the states a failed writer of `data` to `p` may leave: nothing written, or a
\* file of any length up to all of the data (the failure can come after the
\* last byte: copystat in copy2, the decoding of the tool's messages in _run)
PartialLens(data) == 0..Len(data)

FailedWrites(f, p, data) ==
    {f} \cup {WriteFile(f, p, File(SubSeq(data, 1, k), FALSE)) : k \in PartialLens(data)}

\* ---------------------------------------------------------- the scenario
\* the source's directory holds the source, a symbolic link to it, another
\* audio file and a symbolic link to that one
SrcA == Path(Cwd, "a", ".mp3")

SrcRel == [SrcA EXCEPT !.rel = TRUE]

SrcLink == Path(Cwd, "ln", ".mp3")

Missing == Path(Cwd, "none", ".mp3")

Other == Path(Cwd, "b", ".wav")

OtherLink == Path(Cwd, "lb", "")

Fresh == Path(Cwd, "new", ".wav")

InGone == Path("gone", "x", ".mp3")

\* destinations absent at the start, of another suffix and of a suffix in
\* capitals
FreshFlac == Path(Cwd, "out", ".flac")

FreshUpper == Path(Cwd, "up", ".MP3")

\* positions 1..n
Iota(n) == [i \in 1..n |-> i]

OtherData == <<0>>

Durations == {0, MaxDur - 1, MaxDur}

\* whole ticks on either side of the durations, and the tiny floats
RawCuts == {Ticks(v) : v \in (-(MaxDur + 1))..(2 * MaxDur)} \cup {Tiny(-1), Tiny(1)}

Finite(v) == [finite |-> TRUE, val |-> v]

NotFinite == [finite |-> FALSE, val |-> Ticks(0)]

Cuts == {Finite(v) : v \in RawCuts} \cup {NotFinite}

Sources == {SrcA, SrcRel, SrcLink, Missing}

\* NoPath is output_path = None
Outputs == {NoPath, SrcA, SrcRel, SrcLink, Other, OtherLink, Fresh, InGone,
            FreshFlac, FreshUpper}

InitFs(d) ==
    (SrcA :> File(Iota(d), TRUE)) @@ (SrcLink :> Link(SrcA))
      @@ (Other :> File(OtherData, TRUE)) @@ (OtherLink :> Link(Other))

NoPrev == [mode |-> "none", split |-> 0, cut |-> Ticks(0), duration |-> 0, data |-> <<>>]

Start(src, c, out, frc, f, r, pv) ==
    /\ fs = f /\ fs0 = f /\ dirs = {Cwd, "tmp"}
    /\ pc = "start"
    /\ input_path = src /\ cut_seconds = c /\ output_path = out /\ force = frc
    /\ duration = 0 /\ dest = NoPath /\ same_path = FALSE /\ dest_resolved = NoPath
    /\ cut = Ticks(0) /\ cut_text = <<>> /\ suffix = "" /\ work_output = NoPath
    /\ temp_path = NoPath /\ pending = "" /\ err = "" /\ ret = NoPath
    /\ calls = <<>> /\ run = r /\ prev = pv

Init ==
    \E src \in Sources, c \in Cuts, out \in Outputs, frc \in BOOLEAN, d \in Durations :
        Start(src, c, out, frc, InitFs(d), 1, NoPrev)

\* ------------------------------------------------------------- the run
locals == <<duration, dest, same_path, dest_resolved, cut, cut_text, suffix,
            work_output, temp_path>>

args == <<input_path, cut_seconds, output_path, force, fs0, run, prev>>

Call(tool, ok, opts) == [tool |-> tool, ok |-> ok, opts |-> opts]

\* lines 21-25: how a call of _run ends: the tool exits with 0; it exits with
\* another status; or subprocess.run itself raises (the tool cannot be
\* started, its messages cannot be decoded)
RunOutcomes == {"ok", "exit", "fault"}

\* lines 22-25: the error of a call that did not succeed: the RuntimeError of
\* line 25, named by its step, or the exception of subprocess.run
RunError(outcome, step) == IF outcome = "exit" THEN step ELSE "Other"

\* raise: the run ends with the error
Raise(e) == pc' = "failed" /\ err' = e

\* lines 102-107
CheckInput ==
    /\ pc = "start"
    /\ IF ~IsFile(fs, input_path) THEN Raise("InputNotFound")
       ELSE IF ~cut_seconds.finite THEN Raise("InvalidCutSpec")
       ELSE pc' = "probe" /\ err' = err
    /\ UNCHANGED <<fs, dirs, locals, pending, ret, calls, args>>

\* what ffprobe may report of a file
ProbeOutcomes == {"fault", "fail", "nostream", "noduration", "unparsable", "nan", "ok"}

\* _probe_duration: the error it raises on the outcome, "" for none
ProbeError(outcome) ==
    CASE outcome = "fault" -> "Other"
      [] outcome = "fail" -> "ProbeFailure"
      [] outcome = "nostream" -> "NoAudioStream"
      [] outcome \in {"noduration", "unparsable"} -> "InvalidDuration"
      [] OTHER -> ""

\* _probe_duration: the duration it returns, in ticks: float() of the text,
\* which names the file's length
ProbeValue(outcome, data) == IF outcome = "nan" THEN 0 ELSE Len(data)

\* line 109
ProbeDuration ==
    /\ pc = "probe"
    /\ \E outcome \in ProbeOutcomes :
        /\ calls' = Append(calls, Call("probe", ProbeError(outcome) = "", <<>>))
        /\ IF ProbeError(outcome) # ""
           THEN Raise(ProbeError(outcome)) /\ duration' = duration
           ELSE /\ duration' = ProbeValue(outcome, ReadFile(fs, input_path).data)
                /\ pc' = "dest" /\ err' = err
    /\ UNCHANGED <<fs, dirs, dest, same_path, dest_resolved, cut, cut_text, suffix,
                   work_output, temp_path, pending, ret, args>>

\* lines 111-116: <stem>.loopified<suffix> beside the source, or the path given
DefaultDest(src) == [src EXCEPT !.stem = @ \o ".loopified"]

DestOf(src, out) == IF out = NoPath THEN DefaultDest(src) ELSE out

\* a bug: the destination's directory is made when it is missing
DirsCreated(ds, d) == ds \cup {d.dir}

\* lines 118-119: the destination's directory is looked up and never made
DirsAfterCheck(ds, d) == ds

\* lines 111-119
ChooseDest ==
    /\ pc = "dest"
    /\ dest' = DestOf(input_path, output_path)
    /\ IF dest'.dir \notin dirs THEN Raise("OutputDirMissing")
       ELSE pc' = "policy" /\ err' = err
    /\ dirs' = DirsAfterCheck(dirs, dest')
    /\ UNCHANGED <<fs, duration, same_path, dest_resolved, cut, cut_text, suffix,
                   work_output, temp_path, pending, ret, calls, args>>

\* a bug: the source itself is not protected
MustRefuseUnlessSame(destExists, same, frc) == destExists /\ ~frc /\ ~same

\* lines 125-131: the run is refused
MustRefuse(destExists, same, frc) ==
    (destExists /\ ~frc) \/ (~destExists /\ same /\ ~frc)

\* lines 128-129: the destination is deleted first
MustUnlink(destExists, same, frc) == destExists /\ frc /\ ~same

\* a bug: the forced run deletes the source
UnlinkTargetSource(src, d) == src

\* line 129: the path the forced run deletes
UnlinkTarget(src, d) == d

\* lines 121-131
OverwritePolicy ==
    /\ pc = "policy"
    /\ dest_resolved' = Resolve(fs, dest)
    /\ same_path' = (Resolve(fs, input_path) = Resolve(fs, dest))
    /\ IF MustRefuse(Exists(fs, dest), same_path', force)
       THEN Raise("OverwriteRefused") /\ fs' = fs
       ELSE /\ fs' = IF MustUnlink(Exists(fs, dest), same_path', force)
                     THEN Unlink(fs, UnlinkTarget(input_path, dest)) ELSE fs
            /\ pc' = "branch" /\ err' = err
    /\ UNCHANGED <<dirs, duration, dest, cut, cut_text, suffix, work_output, temp_path,
                   pending, ret, calls, args>>

\* lines 133-140: the copy path or the rotation
Dispatch ==
    /\ pc = "branch"
    /\ IF duration <= 0
       THEN pc' = "copy" /\ cut' = cut
       ELSE /\ cut' = Normalize(cut_seconds.val, duration)
            /\ pc' = IF IsCloseZero(cut') THEN "copy" ELSE "mktmp"
    /\ UNCHANGED <<fs, dirs, duration, dest, same_path, dest_resolved, cut_text, suffix,
                   work_output, temp_path, pending, err, ret, calls, args>>

\* ------------------------------------------------------------ _copy_file
\* lines 82-83: NamedTemporaryFile(dir=dest.parent, suffix=dest.suffix, delete=False)
StagingPath(d) == Path(d.dir, "tmpstage", d.ext)

\* line 85: where the same-path copy writes the source's bytes
StagingTarget(d, tmp) == tmp

\* a bug: the staged file is never looked for
StagedNeverLeft(f, tmp) == FALSE

\* line 88: the staged file is still there
StagedLeft(f, tmp) == Absolute(tmp) \in DOMAIN f

\* lines 81-83, 90: the two ways to copy
CopyBegin ==
    /\ pc = "copy"
    /\ IF same_path
       THEN /\ temp_path' = StagingPath(dest)
            /\ fs' = WriteFile(fs, temp_path', File(<<>>, FALSE))
            /\ pc' = "copy_stage"
       ELSE UNCHANGED <<temp_path, fs>> /\ pc' = "copy_direct"
    /\ UNCHANGED <<dirs, duration, dest, same_path, dest_resolved, cut, cut_text, suffix,
                   work_output, pending, err, ret, calls, args>>

\* line 85: shutil.copy2(src, temp_path)
CopyToTemp ==
    /\ pc = "copy_stage"
    /\ \E ok \in BOOLEAN :
        /\ calls' = Append(calls, Call("copy2", ok, <<>>))
        /\ IF ok
           THEN /\ fs' = WriteFile(fs, StagingTarget(dest, temp_path),
                                   File(ReadFile(fs, input_path).data, TRUE))
                /\ pc' = "copy_replace" /\ pending' = pending
           ELSE /\ fs' \in FailedWrites(fs, StagingTarget(dest, temp_path),
                                        ReadFile(fs, input_path).data)
                /\ pc' = "copy_finally" /\ pending' = "CopyFailure"
    /\ UNCHANGED <<dirs, locals, err, ret, args>>

\* line 86: temp_path.replace(dest)
CopyReplace ==
    /\ pc = "copy_replace"
    /\ \/ fs' = Rename(fs, temp_path, dest) /\ pending' = pending
       \/ fs' = fs /\ pending' = "SwapFailure"
    /\ pc' = "copy_finally"
    /\ UNCHANGED <<dirs, locals, err, ret, calls, args>>

\* lines 87-89, then line 135 or 140
CopyFinally ==
    /\ pc = "copy_finally"
    /\ fs' = IF StagedLeft(fs, temp_path) THEN Unlink(fs, temp_path) ELSE fs
    /\ IF pending # "" THEN Raise(pending) /\ ret' = ret
       ELSE pc' = "done" /\ ret' = dest_resolved /\ err' = err
    /\ UNCHANGED <<dirs, locals, pending, calls, args>>

\* line 91: shutil.copy2(src, dest), then line 135 or 140
CopyDirect ==
    /\ pc = "copy_direct"
    /\ \E ok \in BOOLEAN :
        /\ calls' = Append(calls, Call("copy2", ok, <<>>))
        /\ IF ok
           THEN /\ fs' = WriteFile(fs, dest, File(ReadFile(fs, input_path).data, TRUE))
                /\ pc' = "done" /\ ret' = dest_resolved /\ err' = err
           ELSE /\ fs' \in FailedWrites(fs, dest, ReadFile(fs, input_path).data)
                /\ Raise("CopyFailure") /\ ret' = ret
    /\ UNCHANGED <<dirs, locals, pending, args>>

\* ------------------------------------------------------------- rotation
WorkDir == "w"

\* line 144
SuffixOf(src, d) == IF src.ext # "" THEN src.ext ELSE d.ext

PartB(sfx) == Path(WorkDir, "part_b", sfx)

PartA(sfx) == Path(WorkDir, "part_a", sfx)

ListPath == Path(WorkDir, "concat", ".txt")

\* a bug: the join writes to the destination also when it is the source
WorkOutputDirect(d, same, sfx) == d

\* line 148
WorkOutput(d, same, sfx) == IF ~same THEN d ELSE Path(WorkDir, "output", sfx)

\* lines 142-150
MakeWorkDir ==
    /\ pc = "mktmp"
    /\ dirs' = dirs \cup {WorkDir}
    /\ suffix' = SuffixOf(input_path, dest)
    /\ work_output' = WorkOutput(dest, same_path, suffix')
    /\ cut_text' = FormatTime(cut)
    /\ pc' = "tail"
    /\ UNCHANGED <<fs, duration, dest, same_path, dest_resolved, cut, temp_path,
                   pending, err, ret, calls, args>>

\* the transcoder's -ss: what plays from sample t on
TailOf(data, t) == SubSeq(data, Min(t, Len(data)) + 1, Len(data))

\* the transcoder's -t: what plays before sample t
HeadOf(data, t) == SubSeq(data, 1, Min(t, Len(data)))

\* lines 21-25, 152-181: _run raises on a failed extraction, and the run
\* leaves the with block; it goes on otherwise
AfterExtract(ok, next) == IF ok THEN next ELSE "cleanup"

\* lines 152-166: the tail, from the cut to the end
ExtractTail ==
    /\ pc = "tail"
    /\ LET data == TailOf(ReadFile(fs, input_path).data, SeekTicks(ParseTime(cut_text)))
       IN  \E outcome \in RunOutcomes :
            /\ calls' = Append(calls, Call("tail", outcome = "ok", cut_text))
            /\ IF outcome = "ok"
               THEN /\ fs' = WriteFile(fs, PartB(suffix), File(data, TRUE))
                    /\ pending' = pending
               ELSE /\ fs' \in FailedWrites(fs, PartB(suffix), data)
                    /\ pending' = RunError(outcome, "SplitFailure")
            /\ pc' = AfterExtract(outcome = "ok", "head")
    /\ UNCHANGED <<dirs, locals, err, ret, args>>

\* lines 167-181: the head, from the start to the cut
ExtractHead ==
    /\ pc = "head"
    /\ LET data == HeadOf(ReadFile(fs, input_path).data, SeekTicks(ParseTime(cut_text)))
       IN  \E outcome \in RunOutcomes :
            /\ calls' = Append(calls, Call("head", outcome = "ok", cut_text))
            /\ IF outcome = "ok"
               THEN /\ fs' = WriteFile(fs, PartA(suffix), File(data, TRUE))
                    /\ pending' = pending
               ELSE /\ fs' \in FailedWrites(fs, PartA(suffix), data)
                    /\ pending' = RunError(outcome, "SplitFailure")
            /\ pc' = AfterExtract(outcome = "ok", "list")
    /\ UNCHANGED <<dirs, locals, err, ret, args>>

\* _concat_line: one line of the list file
ConcatLine(p) == [directive |-> "file", path |-> p]

\* a bug: the list names the head first
ListLinesSwapped(f, b, a) == <<ConcatLine(Resolve(f, a)), ConcatLine(Resolve(f, b))>>

\* line 184: the list file's lines, in join order
ListLines(f, b, a) == <<ConcatLine(Resolve(f, b)), ConcatLine(Resolve(f, a))>>

\* lines 183-186
WriteList ==
    /\ pc = "list"
    /\ fs' = WriteFile(fs, ListPath, ListFile(ListLines(fs, PartB(suffix), PartA(suffix))))
    /\ pc' = "concat"
    /\ UNCHANGED <<dirs, locals, pending, err, ret, calls, args>>

\* the transcoder joining its inputs in the order given
RECURSIVE Joined(_, _)
Joined(f, paths) ==
    IF paths = <<>> THEN <<>> ELSE ReadFile(f, Head(paths)).data \o Joined(f, Tail(paths))

\* a bug: the re-encoding join takes the head first
TranscodeInputsSwapped(b, a) == <<a, b>>

\* lines 213-216: the inputs of the re-encoding join, in order
TranscodeInputs(b, a) == <<b, a>>

\* _infer_codec_args; str.lower() of the suffixes in use
Lower(ext) == IF ext = ".MP3" THEN ".mp3" ELSE IF ext = ".WAV" THEN ".wav" ELSE ext

InferCodecArgs(sfx) ==
    IF Lower(sfx) = ".mp3" THEN <<"-c:a", "libmp3lame", "-q:a", "2">>
    ELSE IF Lower(sfx) = ".wav" THEN <<"-c:a", "pcm_s16le">>
    ELSE <<"-c:a", "aac", "-b:a", "192k">>

\* a bug: the source's suffix first, as at line 144
CodecSuffixFromSource(d, src) == IF src.ext # "" THEN src.ext ELSE d.ext

\* line 207
CodecSuffix(d, src) == IF d.ext # "" THEN d.ext ELSE src.ext

\* lines 204-206, 226: where the run goes after the lossless join: the
\* except of line 206 takes the RuntimeError of _run and nothing else
AfterConcat(outcome, same) ==
    IF outcome = "exit" THEN "transcode"
    ELSE IF outcome = "fault" THEN "cleanup"
    ELSE IF same THEN "swap" ELSE "cleanup"

\* lines 188-205: the lossless join of the listed files
ConcatCopy ==
    /\ pc = "concat"
    /\ LET lines == ReadFile(fs, ListPath).lines
           data  == Joined(fs, [i \in 1..Len(lines) |-> lines[i].path])
       IN  \E outcome \in RunOutcomes :
            /\ calls' = Append(calls, Call("concat", outcome = "ok", <<>>))
            /\ fs' \in IF outcome = "ok" THEN {WriteFile(fs, work_output, File(data, TRUE))}
                       ELSE FailedWrites(fs, work_output, data)
            /\ pending' = IF outcome = "fault" THEN RunError(outcome, "JoinFailure")
                           ELSE pending
            /\ pc' = AfterConcat(outcome, same_path)
    /\ UNCHANGED <<dirs, locals, err, ret, args>>

\* lines 206-224: the re-encoding join
Transcode ==
    /\ pc = "transcode"
    /\ LET data == Joined(fs, TranscodeInputs(PartB(suffix), PartA(suffix)))
       IN  \E outcome \in RunOutcomes :
            /\ calls' = Append(calls, Call("transcode", outcome = "ok",
                                           InferCodecArgs(CodecSuffix(dest, input_path))))
            /\ IF outcome = "ok"
               THEN /\ fs' = WriteFile(fs, work_output, File(data, TRUE))
                    /\ pc' = IF same_path THEN "swap" ELSE "cleanup"
                    /\ pending' = pending
               ELSE /\ fs' \in FailedWrites(fs, work_output, data)
                    /\ pc' = "cleanup" /\ pending' = RunError(outcome, "JoinFailure")
    /\ UNCHANGED <<dirs, locals, err, ret, args>>

\* lines 226-227: Path(work_output).replace(dest)
Swap ==
    /\ pc = "swap"
    /\ \/ fs' = Rename(fs, work_output, dest) /\ pending' = pending
       \/ fs' = fs /\ pending' = "SwapFailure"
    /\ pc' = "cleanup"
    /\ UNCHANGED <<dirs, locals, err, ret, calls, args>>

\* the exit of the with block of line 142: the directory and all it holds go
RemoveTree(f, dir) == [q \in {r \in DOMAIN f : r.dir # dir} |-> f[q]]

\* line 142 (exit), then line 229
Cleanup ==
    /\ pc = "cleanup"
    /\ fs' = RemoveTree(fs, WorkDir)
    /\ dirs' = dirs \ {WorkDir}
    /\ IF pending # "" THEN Raise(pending) /\ ret' = ret
       ELSE pc' = "done" /\ ret' = dest_resolved /\ err' = err
    /\ UNCHANGED <<locals, pending, calls, args>>

Next ==
    \/ CheckInput \/ ProbeDuration \/ ChooseDest \/ OverwritePolicy \/ Dispatch
    \/ CopyBegin \/ CopyToTemp \/ CopyReplace \/ CopyFinally \/ CopyDirect
    \/ MakeWorkDir \/ ExtractTail \/ ExtractHead \/ WriteList
    \/ ConcatCopy \/ Transcode \/ Swap \/ Cleanup

Spec == Init /\ [][Next]_vars

\* ------------------------------------------------- what the claims speak of
Ended == pc \in {"done", "failed"}

Called(tool) == \E i \in 1..Len(calls) : calls[i].tool = tool

CalledWith(tool, ok) == \E i \in 1..Len(calls) : calls[i].tool = tool /\ calls[i].ok = ok

\* the run took the rotation, not the copy
Rotated == Called("tail")

\* the source's content when the run started
SrcData0 == ReadFile(fs0, input_path).data

\* the destination the arguments name
Dest0 == DestOf(input_path, output_path)

\* the destination is the source, however spelled
Aliased == IsFile(fs0, input_path) /\ Resolve(fs0, input_path) = Resolve(fs0, Dest0)

\* the content split at position t and swapped
RotateAt(data, t) ==
    SubSeq(data, Min(t, Len(data)) + 1, Len(data)) \o SubSeq(data, 1, Min(t, Len(data)))

\* the offset as six decimals hold it, in microseconds
SixDecimals(c) == RoundHalfEven(c.ticks * Pow10(FracDigits), Pow2(TickBits))

\* the samples that play before the offset as six decimals hold it
SplitPoint(c) == SeekTicks(SixDecimals(c))

\* what the run is to write
NewOutput == IF Rotated THEN RotateAt(SrcData0, SplitPoint(cut)) ELSE SrcData0

\* C1: in a forced run whose destination is the source, the source path
\* exists at every state and holds the whole original or the whole new output
C1_SourceNeverTorn ==
    (Aliased /\ force) =>
        /\ Exists(fs, input_path)
        /\ ReadFile(fs, input_path).whole
        /\ ReadFile(fs, input_path).data \in {SrcData0, NewOutput}

C1_Witness ==
    /\ Aliased /\ force /\ pc = "failed" /\ err = "JoinFailure"
    /\ ReadFile(fs, input_path).data = SrcData0

\* C2 (as claimed): when the run has ended, by success, SplitFailure or
\* JoinFailure, the destination path holds a whole file or none
C2_NoPartialOutput ==
    (Ended /\ err \in {"", "SplitFailure", "JoinFailure"} /\ dest # NoPath
       /\ Exists(fs, dest)) => ReadFile(fs, dest).whole

\* the steps that split, join or copy
WorkCalls == {"tail", "head", "concat", "transcode", "copy2"}

NoWorkCalled == \A i \in 1..Len(calls) : calls[i].tool \notin WorkCalls

\* the validation before the overwrite policy passes
Validated == IsFile(fs0, input_path) /\ cut_seconds.finite /\ ~CalledWith("probe", FALSE)

\* C3 (as claimed): every unforced run onto an existing destination fails with
\* OverwriteRefused, calls no step and leaves the destination alone
C3_AlwaysRefused ==
    (~force /\ Exists(fs0, Dest0)) =>
        /\ NoWorkCalled
        /\ fs = fs0
        /\ Ended => (pc = "failed" /\ err = "OverwriteRefused")

\* C3 (amended): every unforced run onto an existing destination fails, calls
\* no step and leaves the file system alone; it fails with OverwriteRefused
\* when the input exists, the cut is finite and the probe succeeds
C3_Refused ==
    (~force /\ Exists(fs0, Dest0)) =>
        /\ NoWorkCalled
        /\ fs = fs0
        /\ Ended => pc = "failed"
        /\ (Ended /\ Validated) => err = "OverwriteRefused"

C3_Witness ==
    /\ ~force /\ Aliased /\ input_path # Dest0
    /\ pc = "failed" /\ err = "OverwriteRefused"

ConcatCalls == {i \in 1..Len(calls) : calls[i].tool = "concat"}

TranscodeCalls == {i \in 1..Len(calls) : calls[i].tool = "transcode"}

JoinsOk == {i \in ConcatCalls \cup TranscodeCalls : calls[i].ok}

\* C4 (as claimed): the lossless join comes first and once; the re-encoding
\* join is made when and only when it failed, once; a rotated run that succeeds
\* had exactly one join succeed; JoinFailure is exactly both joins failing
C4_JoinStrategy ==
    /\ Cardinality(ConcatCalls) <= 1 /\ Cardinality(TranscodeCalls) <= 1
    /\ pc = "concat" => (ConcatCalls = {} /\ TranscodeCalls = {})
    /\ \A i \in TranscodeCalls : i > 1 /\ calls[i - 1].tool = "concat" /\ ~calls[i - 1].ok
    /\ CalledWith("concat", FALSE) => (pc = "transcode" \/ TranscodeCalls # {})
    /\ pc = "transcode" => (CalledWith("concat", FALSE) /\ TranscodeCalls = {})
    /\ (pc = "done" /\ Rotated) => Cardinality(JoinsOk) = 1
    /\ Ended => (err = "JoinFailure"
                    <=> (CalledWith("concat", FALSE) /\ CalledWith("transcode", FALSE)))

\* C5: when the run has ended nothing temporary remains: no working
\* directory, nothing in it, no staging file beside the destination
C5_NoTempLeft ==
    Ended =>
        /\ WorkDir \notin dirs
        /\ \A q \in DOMAIN fs : q.dir # WorkDir /\ q.stem # "tmpstage"
        /\ temp_path # NoPath => Absolute(temp_path) \notin DOMAIN fs

C5_Witness ==
    /\ pc = "failed" /\ err = "CopyFailure" /\ temp_path # NoPath

\* C6 (as claimed): after success the file at the returned path is the output
\* the run wrote
C6_ReturnedPathHoldsOutput ==
    pc = "done" =>
        /\ Exists(fs, ret)
        /\ ReadFile(fs, ret).whole
        /\ ReadFile(fs, ret).data = NewOutput

\* cut_seconds mod duration, of the reals, is within the tolerance of zero:
\* a tiny raw cut is when it is positive, and is a tiny step below the
\* duration when it is negative
WithinTolerance(raw, d) ==
    IF raw.tiny # 0 THEN raw.tiny > 0
    ELSE (raw.ticks % d) * Pow10(FracDigits) <= AbsTolMicros * Pow2(TickBits)

\* C7: with a duration not positive, or a normalized cut within the
\* tolerance of zero, no extraction and no join is called, and on success the
\* destination's content is the source's
C7_NoOpCopies ==
    (/\ CalledWith("probe", TRUE)
     /\ \/ duration <= 0
        \/ WithinTolerance(cut_seconds.val, duration)) =>
        /\ ~Called("tail") /\ ~Called("head") /\ ~Called("concat") /\ ~Called("transcode")
        /\ pc = "done" =>
            /\ Exists(fs, dest)
            /\ ReadFile(fs, dest) = File(SrcData0, TRUE)

C7_Witness ==
    /\ pc = "done" /\ duration > 0 /\ cut_seconds.val = Ticks(duration)
    /\ Called("copy2") /\ ReadFile(fs, dest).data = SrcData0

\* a rotated run that succeeded, its offset inside the duration
RotatedDone == pc = "done" /\ Rotated /\ Sign(cut) > 0 /\ cut.ticks < duration

\* C8 (as claimed): the output is the source from cut to the end, then the
\* source from the start to cut
C8_SplitAtCut ==
    RotatedDone => ReadFile(fs, dest).data = RotateAt(SrcData0, cut.ticks)

\* C8 (amended): the output is the source from c to the end, then the source
\* from the start to c, where c is cut rounded to six decimals of a second;
\* every position of the source is there once and the lengths agree, on
\* either join
C8_SplitAtFormattedCut ==
    RotatedDone =>
        LET out == ReadFile(fs, dest).data
            c   == SplitPoint(cut)
        IN  /\ out = TailOf(SrcData0, c) \o HeadOf(SrcData0, c)
            /\ Len(out) = Len(SrcData0)
            /\ \A x \in 1..Len(SrcData0) :
                Cardinality({i \in 1..Len(out) : out[i] = SrcData0[x]}) = 1

C8_Witness ==
    /\ RotatedDone /\ CalledWith("transcode", TRUE)
    /\ ReadFile(fs, dest).data # SrcData0

\* ------------------------------------------- the normalization on its own
NormBound == 4 * MaxDur

NormRaws == {Ticks(v) : v \in (-NormBound)..NormBound} \cup {Tiny(-1), Tiny(1)}

NormDurations == 1..NormBound

\* the state at line 137: a finite cut and a positive duration
InitNorm ==
    \E raw \in NormRaws, d \in NormDurations :
        /\ fs = InitFs(0) /\ fs0 = InitFs(0) /\ dirs = {Cwd, "tmp"}
        /\ pc = "norm"
        /\ input_path = SrcA /\ cut_seconds = Finite(raw) /\ output_path = NoPath
        /\ force = FALSE /\ duration = d /\ dest = NoPath /\ same_path = FALSE
        /\ dest_resolved = NoPath /\ cut = Ticks(0) /\ cut_text = <<>> /\ suffix = ""
        /\ work_output = NoPath /\ temp_path = NoPath /\ pending = "" /\ err = ""
        /\ ret = NoPath /\ calls = <<>> /\ run = 1 /\ prev = NoPrev

\* line 137
NormalizeCut ==
    /\ pc = "norm"
    /\ cut' = Normalize(cut_seconds.val, duration)
    /\ pc' = "normed"
    /\ UNCHANGED <<fs, dirs, duration, dest, same_path, dest_resolved, cut_text, suffix,
                   work_output, temp_path, pending, err, ret, calls, args>>

\* the caller's raw + duration, a float
ShiftedRaw(raw, d) == FloatAdd(raw, d)

\* the same duration again, the raw cut one duration later
ShiftByDuration ==
    /\ pc = "normed" /\ run = 1
    /\ cut_seconds' = Finite(ShiftedRaw(cut_seconds.val, duration))
    /\ prev' = [prev EXCEPT !.mode = "normalize", !.cut = cut, !.duration = duration]
    /\ run' = 2
    /\ pc' = "norm"
    /\ UNCHANGED <<fs, dirs, locals, pending, err, ret, calls, input_path, output_path,
                   force, fs0>>

NextNorm == NormalizeCut \/ ShiftByDuration

SpecNorm == InitNorm /\ [][NextNorm]_vars

\* C9 (as claimed): the normalized offset is in [0, duration), and the raw
\* cut one duration later normalizes to the same offset
C9_NormalizedInRange ==
    pc = "normed" =>
        /\ Sign(cut) >= 0 /\ cut.ticks < duration
        /\ run = 2 => cut = prev.cut

\* ------------------------------------------------- two runs, one after the other
\* the ticks to a 64th of a second, the floats that are whole microseconds
WholeTicks == Pow2(TickBits - FracDigits)

TwiceDurations == {4 * WholeTicks, 4 * WholeTicks + 1, 6 * WholeTicks}

TwiceCuts == {Finite(Ticks(v)) : v \in 1..(6 * WholeTicks - 1)}

InitTwice ==
    \E c \in TwiceCuts, out \in {SrcA, Fresh}, d \in TwiceDurations :
        /\ c.val.ticks < d
        /\ Start(SrcA, c, out, TRUE, InitFs(d), 1, NoPrev)

\* the complement of the offset in the duration, the caller's float d - c
Complement(c, d) == FloatAdd([ticks |-> -c.ticks, tiny |-> -c.tiny], d)

\* the result of the first run rotated in place by the complement of its offset
NextRun ==
    /\ pc = "done" /\ run = 1
    /\ fs0' = fs /\ run' = 2
    /\ prev' = [mode |-> IF Rotated THEN "rotate" ELSE "copy",
                split |-> IF Rotated THEN SeekTicks(ParseTime(cut_text)) ELSE 0,
                cut |-> cut_seconds.val, duration |-> Len(SrcData0), data |-> SrcData0]
    /\ input_path' = dest /\ output_path' = dest /\ force' = TRUE
    /\ cut_seconds' = Finite(Complement(cut_seconds.val, Len(SrcData0)))
    /\ pc' = "start"
    /\ duration' = 0 /\ dest' = NoPath /\ same_path' = FALSE /\ dest_resolved' = NoPath
    /\ cut' = Ticks(0) /\ cut_text' = <<>> /\ suffix' = "" /\ work_output' = NoPath
    /\ temp_path' = NoPath /\ pending' = "" /\ err' = "" /\ ret' = NoPath
    /\ calls' = <<>>
    /\ UNCHANGED <<fs, dirs>>

NextTwice == Next \/ NextRun

SpecTwice == InitTwice /\ [][NextTwice]_vars

\* the second run has succeeded, after a first run by an offset inside the
\* duration
TwiceDone ==
    run = 2 /\ pc = "done" /\ Sign(prev.cut) > 0 /\ prev.cut.ticks < prev.duration

\* t ticks are a whole number of microseconds
WholeMicros(t) == (t * Pow10(FracDigits)) % Pow2(TickBits) = 0

\* C10 (as claimed): rotating by cut, then rotating the result by
\* duration - cut, gives the original content
C10_ComplementRestores ==
    TwiceDone => ReadFile(fs, dest).data = prev.data

\* C10 (amended): it does when both runs take the rotation (neither offset is
\* within the tolerance of zero, both probes report the duration) and cut and
\* the duration are whole numbers of microseconds
C10_ComplementRestoresWhole ==
    (/\ TwiceDone /\ prev.mode = "rotate" /\ Rotated
     /\ WholeMicros(prev.cut.ticks) /\ WholeMicros(prev.duration)) =>
        ReadFile(fs, dest) = File(prev.data, TRUE)

C10_Witness ==
    /\ TwiceDone /\ prev.mode = "rotate" /\ Rotated
    /\ WholeMicros(prev.cut.ticks) /\ WholeMicros(prev.duration)
    /\ SrcData0 # prev.data /\ ReadFile(fs, dest).data = prev.data

\* ------------------------------------------------------ the later claims
\* the calls of the external tools, ffprobe and ffmpeg
ExternalTools == <<"probe", "tail", "head", "concat", "transcode">>

IsExternal(c) == \E k \in 1..Len(ExternalTools) : ExternalTools[k] = c.tool

ExternalCalls == SelectSeq(calls, IsExternal)

ProbeErrors == {"ProbeFailure", "NoAudioStream", "InvalidDuration"}

\* C11 (as claimed): the external calls are made in the order probe, tail,
\* head, lossless join, re-encoding join, each once at most; a failed probe or
\* extraction ends the run with no later call (SplitFailure for an
\* extraction); the only call that follows a failed call is the re-encoding
\* join after the lossless one
C11_CallOrder ==
    LET ext == ExternalCalls
    IN  /\ Len(ext) <= Len(ExternalTools)
        /\ \A i \in 1..Len(ext) : ext[i].tool = ExternalTools[i]
        /\ \A i \in 1..(Len(ext) - 1) :
            ~ext[i].ok => (ext[i].tool = "concat" /\ ext[i + 1].tool = "transcode")
        /\ CalledWith("probe", FALSE) => pc = "failed"
        /\ CalledWith("tail", FALSE) => (~Called("head") /\ pc \in {"cleanup", "failed"})
        /\ (CalledWith("tail", FALSE) \/ CalledWith("head", FALSE)) =>
            /\ ~Called("concat") /\ ~Called("transcode")
            /\ pc \in {"cleanup", "failed"}
            /\ Ended => err = "SplitFailure"

\* a suffix without regard to case
FoldCase(ext) == IF ext = ".MP3" THEN ".mp3" ELSE IF ext = ".WAV" THEN ".wav" ELSE ext

\* the codec parameters the specification gives for a suffix
CodecFor(ext) ==
    CASE FoldCase(ext) = ".mp3" -> <<"-c:a", "libmp3lame", "-q:a", "2">>
      [] FoldCase(ext) = ".wav" -> <<"-c:a", "pcm_s16le">>
      [] OTHER -> <<"-c:a", "aac", "-b:a", "192k">>

\* C12 (as claimed): the re-encoding join takes the codec of the destination's
\* suffix; a destination without a suffix takes AAC whatever the source's is
C12_CodecByDestination ==
    \A i \in TranscodeCalls : calls[i].opts = CodecFor(dest.ext)

\* C12 (amended): the re-encoding join takes the codec of the destination's
\* suffix, and of the source's suffix when the destination has none
C12_CodecByDestinationOrSource ==
    \A i \in TranscodeCalls :
        calls[i].opts = CodecFor(IF dest.ext # "" THEN dest.ext ELSE input_path.ext)

C12_Witness ==
    /\ dest.ext = ""
    /\ \E i \in TranscodeCalls : calls[i].opts = <<"-c:a", "libmp3lame", "-q:a", "2">>

\* the failures of the validation before the overwrite policy
ValidationErrors ==
    {"InputNotFound", "InvalidCutSpec", "ProbeFailure", "NoAudioStream", "InvalidDuration",
     "OutputDirMissing"}

\* the directories before the run
Dirs0 == {Cwd, "tmp"}

\* C13: a run that fails in the validation before the overwrite policy leaves
\* every file and directory as it was, an existing destination included even
\* when forced, and calls no extraction, join or copy; nothing is touched
\* while the validation is still under way either
C13_ValidationFailureTouchesNothing ==
    /\ (pc = "failed" /\ err \in ValidationErrors) =>
        /\ fs = fs0
        /\ dirs = Dirs0
        /\ NoWorkCalled
    /\ pc \in {"start", "probe", "dest", "policy"} => (fs = fs0 /\ dirs = Dirs0 /\ NoWorkCalled)

C13_Witness ==
    /\ pc = "failed" /\ err \in ProbeErrors
    /\ force /\ Exists(fs0, Dest0) /\ ~Aliased
    /\ Exists(fs, Dest0)

\* C14: in a run whose destination is not the source, the source's path and
\* the file it leads to are at every state what they were at the start
C14_SourceUntouched ==
    (IsFile(fs0, input_path) /\ ~Aliased) =>
        /\ Absolute(input_path) \in DOMAIN fs
        /\ fs[Absolute(input_path)] = fs0[Absolute(input_path)]
        /\ Exists(fs, input_path)
        /\ Resolve(fs, input_path) = Resolve(fs0, input_path)
        /\ ReadFile(fs, input_path) = ReadFile(fs0, input_path)

C14_Witness ==
    /\ IsFile(fs0, input_path) /\ ~Aliased
    /\ force /\ Exists(fs0, Dest0)
    /\ pc = "failed" /\ err = "JoinFailure"
    /\ ReadFile(fs, input_path) = ReadFile(fs0, input_path)

====
